---- MODULE Spec2Model ----
(***************************************************************************)
(* The incremental lexer of proto-jo: src/pass/lexer/index.js (tokenStream,*)
(* asyncLoop, withState, loop and the four branch functions) over the      *)
(* persistent lexer State of src/pass/lexer/state.js.                      *)
(*                                                                         *)
(* Characters are one-character strings, texts and buffers are sequences   *)
(* of characters.                                                          *)
(***************************************************************************)
EXTENDS Integers, Sequences, FiniteSets, TLC

\* ------------------------------------------------------------------ bounds

\* Longest text enumerated exhaustively over Alphabet.
MaxLen == 3

\* Most empty-string chunks the chunk source delivers in one session.
MaxEmpty == 1

\* Most operations a caller applies to a cursor and a lexer State in a row.
MaxOps == 4

\* ------------------------------------------------------------- characters

Letters ==
  { "a", "b", "c", "d", "e", "f", "g", "h", "i", "j", "k", "l", "m",
    "n", "o", "p", "q", "r", "s", "t", "u", "v", "w", "x", "y", "z",
    "A", "B", "C", "D", "E", "F", "G", "H", "I", "J", "K", "L", "M",
    "N", "O", "P", "Q", "R", "S", "T", "U", "V", "W", "X", "Y", "Z" }

Digits == { "0", "1", "2", "3", "4", "5", "6", "7", "8", "9" }

\* What the regular expression class \s matches among one-character strings.
Spaces == { " ", "\n", "\t", "\r", "\f" }

\* The test for an Identifier's first character written with the class of its
\* later ones.
isAlphaOrDigit(character) == character \in Letters \cup Digits \cup { "-" }

\* character.match(/^[a-zA-Z]$/)
isAlpha(character) == character \in Letters

\* character.match(/^[a-zA-Z0-9-]$/)
isIdChar(character) == character \in Letters \cup Digits \cup { "-" }

\* character.match(/(\s|\n|\t)/)
isWhitespace(character) == character \in Spaces \cup { "\n", "\t" }

\* -------------------------------------------------- Position and Location

\* Position.init()
PositionInit == [line |-> 0, column |-> 0]

\* Position.shiftWith(character)
shiftWith(pos, character) ==
  IF character = "\n"
    THEN [line |-> pos.line + 1, column |-> 0]
    ELSE [line |-> pos.line, column |-> pos.column + 1]

\* Location.create(start, end)
LocationCreate(start, end) == [start |-> start, end |-> end]

\* ------------------------------------------------------- character cursor

Just(value) == [kind |-> "just", value |-> value]

Nothing == [kind |-> "nothing", value |-> ""]

\* withIterable(text): a cursor at the first character of text.
withIterable(chars) == [chars |-> chars, idx |-> 0]

\* current() that reports the end one character early.
StreamCurrentEarly(stream) ==
  IF stream.idx + 1 < Len(stream.chars)
    THEN Just(stream.chars[stream.idx + 1])
    ELSE Nothing

\* Stream.current()
StreamCurrent(stream) ==
  IF stream.idx < Len(stream.chars)
    THEN Just(stream.chars[stream.idx + 1])
    ELSE Nothing

\* Stream.shiftForward()
StreamShiftForward(stream) ==
  IF stream.idx < Len(stream.chars)
    THEN [stream EXCEPT !.idx = stream.idx + 1]
    ELSE stream

\* ------------------------------------------------------------ lexer State

\* State.create(stream, branch) with the constructor's field values.
StateCreate(stream, branch) ==
  [ stream   |-> stream,
    branch   |-> branch,
    buffer   |-> << >>,
    bufStart |-> PositionInit,
    bufEnd   |-> PositionInit ]

\* get enqueued
enqueued(state) == state.buffer

\* get location
location(state) == LocationCreate(state.bufStart, state.bufEnd)

\* get current
current(state) == StreamCurrent(state.stream)

\* dropBuffer() that clears the buffer and leaves bufStart where it was.
dropBufferKeepStart(state) == [state EXCEPT !.buffer = << >>]

\* dropBuffer()
dropBuffer(state) ==
  [state EXCEPT !.buffer = << >>, !.bufStart = state.bufEnd]

\* shiftForward() that grows the buffer whether or not a character is left.
shiftForwardUnchecked(state) ==
  LET stream == StreamShiftForward(state.stream)
      cur    == current(state)
  IN  [state EXCEPT !.stream = stream,
                    !.bufEnd = shiftWith(state.bufEnd, cur.value),
                    !.buffer = Append(state.buffer, cur.value)]

\* shiftForward()
shiftForward(state) ==
  LET stream == StreamShiftForward(state.stream)
      cur    == current(state)
  IN  IF cur.kind = "just"
        THEN [state EXCEPT !.stream = stream,
                           !.bufEnd = shiftWith(state.bufEnd, cur.value),
                           !.buffer = Append(state.buffer, cur.value)]
        ELSE state

\* setBranch(branch)
setBranch(state, branch) == [state EXCEPT !.branch = branch]

\* addInput(stream): the carried-over state over a new chunk's cursor.
addInput(state, stream) == [state EXCEPT !.stream = stream]

\* ----------------------------------------------------------------- tokens

\* init(tokens.LParenLexicon, location)
LParenLexicon(loc) ==
  [kind |-> "LParen", repr |-> << >>, nchars |-> 0, location |-> loc]

\* init(tokens.RParenLexicon, location)
RParenLexicon(loc) ==
  [kind |-> "RParen", repr |-> << >>, nchars |-> 0, location |-> loc]

\* init(tokens.IdentifierLexicon, repr, location)
IdentifierLexicon(repr, loc) ==
  [kind |-> "Identifier", repr |-> repr, nchars |-> 0, location |-> loc]

\* init(tokens.StringLexicon, content, location)
StringLexicon(content, loc) ==
  [kind |-> "String", repr |-> content, nchars |-> 0, location |-> loc]

\* init(tokens.WhiteSpaceLexicon, nchars, location)
WhiteSpaceLexicon(nchars, loc) ==
  [kind |-> "Whitespace", repr |-> << >>, nchars |-> nchars, location |-> loc]

\* ----------------------------------------------------------------- errors

NoError == [kind |-> "none", character |-> ""]

\* new error.EmptyInputError()
EmptyInputError == [kind |-> "EmptyInputError", character |-> ""]

\* new error.UnexpectedChar(character)
UnexpectedChar(character) == [kind |-> "UnexpectedChar", character |-> character]

\* ------------------------------------------------- branch state machine

\* A StateProcess run to its end: the tokens it yields, then either the state
\* it returns or the error it throws.
Return(yielded, state) == [yield |-> yielded, ret |-> state, throw |-> NoError]

Throw(state, error) == [yield |-> << >>, ret |-> state, throw |-> error]

\* branchInit that steps over an unrecognised character instead of throwing.
branchInitSkip(character, state) ==
  IF isWhitespace(character)
    THEN Return(<< >>, setBranch(state, "WS"))
  ELSE IF isAlpha(character)
    THEN Return(<< >>, setBranch(shiftForward(state), "Id"))
  ELSE IF character = "\""
    THEN Return(<< >>, setBranch(dropBuffer(shiftForward(state)), "String"))
  ELSE IF character = ")"
    THEN LET shifted == shiftForward(state)
         IN  Return(<< RParenLexicon(location(shifted)) >>, dropBuffer(shifted))
  ELSE IF character = "("
    THEN LET shifted == shiftForward(state)
         IN  Return(<< LParenLexicon(location(shifted)) >>, dropBuffer(shifted))
  ELSE Return(<< >>, dropBuffer(shiftForward(state)))

\* branchInit that takes a paren's location before consuming the paren.
branchInitEarlyLocation(character, state) ==
  IF isWhitespace(character)
    THEN Return(<< >>, setBranch(state, "WS"))
  ELSE IF isAlpha(character)
    THEN Return(<< >>, setBranch(shiftForward(state), "Id"))
  ELSE IF character = "\""
    THEN Return(<< >>, setBranch(dropBuffer(shiftForward(state)), "String"))
  ELSE IF character = ")"
    THEN LET shifted == shiftForward(state)
         IN  Return(<< RParenLexicon(location(state)) >>, dropBuffer(shifted))
  ELSE IF character = "("
    THEN LET shifted == shiftForward(state)
         IN  Return(<< LParenLexicon(location(state)) >>, dropBuffer(shifted))
  ELSE Throw(state, UnexpectedChar(character))

\* branchInit that meets whitespace and returns without switching branch.
branchInitNoSwitch(character, state) ==
  IF isWhitespace(character)
    THEN Return(<< >>, state)
  ELSE IF isAlpha(character)
    THEN Return(<< >>, setBranch(shiftForward(state), "Id"))
  ELSE IF character = "\""
    THEN Return(<< >>, setBranch(dropBuffer(shiftForward(state)), "String"))
  ELSE IF character = ")"
    THEN LET shifted == shiftForward(state)
         IN  Return(<< RParenLexicon(location(shifted)) >>, dropBuffer(shifted))
  ELSE IF character = "("
    THEN LET shifted == shiftForward(state)
         IN  Return(<< LParenLexicon(location(shifted)) >>, dropBuffer(shifted))
  ELSE Throw(state, UnexpectedChar(character))

branchInit(character, state) ==
  IF isWhitespace(character)
    THEN Return(<< >>, setBranch(state, "WS"))
  ELSE IF isAlpha(character)
    THEN Return(<< >>, setBranch(shiftForward(state), "Id"))
  ELSE IF character = "\""
    THEN Return(<< >>, setBranch(dropBuffer(shiftForward(state)), "String"))
  ELSE IF character = ")"
    THEN LET shifted == shiftForward(state)
         IN  Return(<< RParenLexicon(location(shifted)) >>, dropBuffer(shifted))
  ELSE IF character = "("
    THEN LET shifted == shiftForward(state)
         IN  Return(<< LParenLexicon(location(shifted)) >>, dropBuffer(shifted))
  ELSE Throw(state, UnexpectedChar(character))

\* branchId that consumes the character that ends the Identifier.
branchIdConsume(character, state) ==
  IF isIdChar(character)
    THEN Return(<< >>, shiftForward(state))
    ELSE LET shifted == shiftForward(state)
         IN  Return(<< IdentifierLexicon(enqueued(state), location(state)) >>,
                    setBranch(dropBuffer(shifted), "Init"))

branchId(character, state) ==
  IF isIdChar(character)
    THEN Return(<< >>, shiftForward(state))
    ELSE Return(<< IdentifierLexicon(enqueued(state), location(state)) >>,
                setBranch(dropBuffer(state), "Init"))

branchString(character, state) ==
  IF character # "\""
    THEN Return(<< >>, shiftForward(state))
    ELSE LET content == enqueued(state)
             shifted == shiftForward(state)
         IN  Return(<< StringLexicon(content, location(shifted)) >>,
                    setBranch(dropBuffer(shifted), "Init"))

branchWS(character, state) ==
  IF isWhitespace(character)
    THEN Return(<< >>, shiftForward(state))
    ELSE Return(<< WhiteSpaceLexicon(Len(enqueued(state)), location(state)) >>,
                setBranch(dropBuffer(state), "Init"))

\* State.withBranch(character): the active branch function on this state.
withBranch(state, character) ==
  CASE state.branch = "Init"   -> branchInit(character, state)
    [] state.branch = "Id"     -> branchId(character, state)
    [] state.branch = "String" -> branchString(character, state)
    [] state.branch = "WS"     -> branchWS(character, state)

\* ------------------------------------------------------------ the drivers

\* initialState()
initialState == StateCreate(withIterable(<< >>), "Init")

\* withState that starts the driver loop on a fresh state over the chunk.
withStateFresh(state, stream) == StateCreate(stream, "Init")

\* withState(state, stream): the state the driver loop starts on.
withState(state, stream) == addInput(state, stream)

\* loop that commits a token boundary when the chunk ends.
loopReturnDrop(state) == dropBuffer(state)

\* loop(state) at end of chunk: the residual state it returns.
loopReturn(state) == state

\* asyncLoop that flushes a buffered Identifier when the source completes.
asyncLoopFlush(state) ==
  IF state.branch = "Id" /\ state.buffer # << >>
    THEN << IdentifierLexicon(enqueued(state), location(state)) >>
    ELSE << >>

\* asyncLoop when the source signals completion: the tokens it still yields.
asyncLoopDone(state) == << >>

\* The test written against the empty string instead of the absent value.
isEmptyInputString(result) ==
  ~ result.done /\ ~ result.isNull /\ result.value = << >>

\* asyncLoop's test of a pulled result for the protocol violation.
isEmptyInput(result) == ~ result.done /\ result.isNull

\* A generator that yields keeps running after the yield without a new pull.
afterYieldRunOn(yielded, running) == running

\* Whether the generators go on running after a step that yielded these
\* tokens: a yield hands the token to the consumer and suspends asyncLoop,
\* loop and the branch function until the consumer's next pull.
afterYield(yielded, running) == IF yielded # << >> THEN FALSE ELSE running

\* --------------------------------------------------------------- the state

VARIABLES
  text,     \* the whole text the chunk source has to deliver
  fed,      \* how many characters of text the source has delivered
  empties,  \* how many empty-string chunks the source has delivered
  last,     \* what the latest iterator.next() resolved with
  state,    \* the lexer State held by asyncLoop / loop
  tokens,   \* the tokens yielded to the consumer so far, in order
  pc,       \* "next": awaiting iterator.next(); "loop": in loop(state);
            \* "done": tokenStream has completed; "error": it has thrown
  err,      \* the error thrown, NoError until then
  pulling,  \* whether the consumer has a next() on tokenStream outstanding
  cursor,   \* a character cursor a caller holds and advances by itself
  shifts,   \* how many shiftForward() calls made cursor from withIterable(text)
  ops       \* how many operations the caller has applied so far

vars == << text, fed, empties, last, state, tokens, pc, err, pulling,
           cursor, shifts, ops >>

\* What the lexer's own drivers never touch.
callerVars == << cursor, shifts, ops >>

\* What a caller working on a cursor or a State by hand never touches.
driverVars == << text, fed, empties, last, pc, pulling >>

\* The characters texts are enumerated over: one or two of each class the
\* branch functions distinguish.
Alphabet == { "a", "1", " ", "\n", "\"", "(", ")", "#" }

RECURSIVE SeqsUpTo(_, _)
SeqsUpTo(S, n) ==
  IF n = 0
    THEN { << >> }
    ELSE LET shorter == SeqsUpTo(S, n - 1)
         IN  shorter \cup { Append(s, c) : s \in shorter, c \in S }

TextParens == << "(", "a", "b", "c", ")" >>

TextString == << "\"", "h", "i", " ", "t", "h", "e", "r", "e", "\"" >>

TextAB == << "a", " ", "b" >>

Texts == SeqsUpTo(Alphabet, MaxLen) \cup { TextParens, TextString, TextAB }

\* What iterator.next() resolves with.
ResultDone == [done |-> TRUE, isNull |-> TRUE, value |-> << >>]

ResultNull == [done |-> FALSE, isNull |-> TRUE, value |-> << >>]

ResultChunk(value) == [done |-> FALSE, isNull |-> FALSE, value |-> value]

NoResult == [done |-> FALSE, isNull |-> FALSE, value |-> << "?" >>]

\* The results the source can resolve the next pull with: a non-empty chunk of
\* the text still to deliver, an empty chunk, no value at all, or completion
\* once the whole text is delivered.
SourceResults ==
  { ResultChunk(SubSeq(text, fed + 1, fed + k)) : k \in 1 .. (Len(text) - fed) }
    \cup (IF empties < MaxEmpty THEN { ResultChunk(<< >>) } ELSE { })
    \cup { ResultNull }
    \cup (IF fed = Len(text) THEN { ResultDone } ELSE { })

Init ==
  /\ text \in Texts
  /\ fed = 0
  /\ empties = 0
  /\ last = NoResult
  /\ state = initialState
  /\ tokens = << >>
  /\ pc = "next"
  /\ err = NoError
  /\ pulling = FALSE
  /\ cursor = withIterable(text)
  /\ shifts = 0
  /\ ops = 0

\* The consumer's next() on the token sequence: it resumes the suspended
\* generators (or starts them), which then run to their next yield, to
\* completion or to a throw.
ConsumerPull ==
  /\ pc \in { "next", "loop" }
  /\ ~ pulling
  /\ pulling' = TRUE
  /\ UNCHANGED << text, fed, empties, last, state, tokens, pc, err >>
  /\ UNCHANGED callerVars

\* asyncLoop(state, iterator): one pull of the chunk source and the dispatch on
\* what it resolved with.
AsyncLoop ==
  /\ pc = "next"
  /\ pulling
  /\ \E result \in SourceResults :
       /\ last' = result
       /\ IF isEmptyInput(result)
            THEN /\ pc' = "error"
                 /\ err' = EmptyInputError
                 /\ pulling' = FALSE
                 /\ UNCHANGED << state, tokens, fed, empties >>
          ELSE IF ~ result.done
            THEN /\ state' = withState(state, withIterable(result.value))
                 /\ fed' = fed + Len(result.value)
                 /\ empties' = IF result.value = << >> THEN empties + 1 ELSE empties
                 /\ pc' = "loop"
                 /\ UNCHANGED << tokens, err, pulling >>
          ELSE /\ tokens' = tokens \o asyncLoopDone(state)
               /\ pc' = "done"
               /\ pulling' = FALSE
               /\ UNCHANGED << state, fed, empties, err >>
  /\ UNCHANGED text
  /\ UNCHANGED callerVars

\* loop(state): one turn of the driver loop, the branch dispatch on the current
\* character or the return of the residual state at end of chunk.
Loop ==
  /\ pc = "loop"
  /\ pulling
  /\ LET cur == current(state)
     IN  IF cur.kind = "just"
           THEN LET p == withBranch(state, cur.value)
                IN  IF p.throw # NoError
                      THEN /\ pc' = "error"
                           /\ err' = p.throw
                           /\ pulling' = FALSE
                           /\ UNCHANGED << state, tokens >>
                      ELSE /\ state' = p.ret
                           /\ tokens' = tokens \o p.yield
                           /\ pulling' = afterYield(p.yield, pulling)
                           /\ UNCHANGED << pc, err >>
           ELSE /\ state' = loopReturn(state)
                /\ pc' = "next"
                /\ UNCHANGED << tokens, err, pulling >>
  /\ UNCHANGED << text, fed, empties, last >>
  /\ UNCHANGED callerVars

Next == ConsumerPull \/ AsyncLoop \/ Loop

Spec == Init /\ [][Next]_vars

\* ------------------------------------- the cursor and the State on their own

\* The branch functions a State can hold.
Branches == { "Init", "Id", "String", "WS" }

\* The chunks a caller swaps in: the text, which ranges over every short
\* sequence of characters, or the empty chunk.
Chunks == { text, << >> }

\* cursor.shiftForward() on the caller's cursor.
CursorShiftForward ==
  /\ ops < MaxOps
  /\ cursor' = StreamShiftForward(cursor)
  /\ shifts' = shifts + 1
  /\ ops' = ops + 1
  /\ UNCHANGED << state, tokens, err >>
  /\ UNCHANGED driverVars

\* state.addInput(stream): a chunk swap.
StateAddInput ==
  /\ ops < MaxOps
  /\ \E chunk \in Chunks : state' = addInput(state, withIterable(chunk))
  /\ ops' = ops + 1
  /\ UNCHANGED << tokens, err, cursor, shifts >>
  /\ UNCHANGED driverVars

\* state.shiftForward()
StateShiftForward ==
  /\ ops < MaxOps
  /\ state' = shiftForward(state)
  /\ ops' = ops + 1
  /\ UNCHANGED << tokens, err, cursor, shifts >>
  /\ UNCHANGED driverVars

\* state.dropBuffer()
StateDropBuffer ==
  /\ ops < MaxOps
  /\ state' = dropBuffer(state)
  /\ ops' = ops + 1
  /\ UNCHANGED << tokens, err, cursor, shifts >>
  /\ UNCHANGED driverVars

\* state.setBranch(branch)
StateSetBranch ==
  /\ ops < MaxOps
  /\ \E branch \in Branches : state' = setBranch(state, branch)
  /\ ops' = ops + 1
  /\ UNCHANGED << tokens, err, cursor, shifts >>
  /\ UNCHANGED driverVars

\* state.withBranch(character) on the current character, run to its end: a
\* branch transition, with the tokens it yields or the error it throws.
StateWithBranch ==
  /\ ops < MaxOps
  /\ current(state).kind = "just"
  /\ LET p == withBranch(state, current(state).value)
     IN  IF p.throw # NoError
           THEN /\ err' = p.throw
                /\ UNCHANGED << state, tokens >>
           ELSE /\ state' = p.ret
                /\ tokens' = tokens \o p.yield
                /\ UNCHANGED err
  /\ ops' = ops + 1
  /\ UNCHANGED << cursor, shifts >>
  /\ UNCHANGED driverVars

NextOps ==
  \/ CursorShiftForward
  \/ StateAddInput
  \/ StateShiftForward
  \/ StateDropBuffer
  \/ StateSetBranch
  \/ StateWithBranch

\* A cursor over any text and the initial State under any sequence of their
\* own operations.
SpecOps == Init /\ [][NextOps]_vars

\* ------------------------------------------------- whole runs and spans

\* loop(state) run to its end on the chunk under the state's cursor: every
\* token it yields after toks, and the residual state it returns or the
\* error it throws.
RECURSIVE loopRun(_, _)
loopRun(st, toks) ==
  LET cur == current(st)
  IN  IF cur.kind = "just"
        THEN LET p == withBranch(st, cur.value)
             IN  IF p.throw # NoError
                   THEN [tokens |-> toks, state |-> st, throw |-> p.throw]
                   ELSE loopRun(p.ret, toks \o p.yield)
        ELSE [tokens |-> toks, state |-> loopReturn(st), throw |-> NoError]

\* withState(initialState(), withIterable(chars)) run to its end: the lexer
\* given chars as one single chunk.
SingleChunk(chars) ==
  loopRun(withState(initialState, withIterable(chars)), << >>)

\* What a residual state carries over to the next chunk.
Residual(st) ==
  [ branch   |-> st.branch,
    buffer   |-> st.buffer,
    bufStart |-> st.bufStart,
    bufEnd   |-> st.bufEnd ]

\* The part of the text the source has delivered so far.
Delivered == SubSeq(text, 1, fed)

\* The position of the cursor after the first k characters of chars.
RECURSIVE PosAt(_, _)
PosAt(chars, k) ==
  IF k = 0 THEN PositionInit ELSE shiftWith(PosAt(chars, k - 1), chars[k])

\* Positions in reading order.
PosLeq(p, q) == p.line < q.line \/ (p.line = q.line /\ p.column <= q.column)

PosLess(p, q) == PosLeq(p, q) /\ p # q

\* The number of characters of the text before position pos.
Offset(pos) ==
  IF \E k \in 0 .. Len(text) : PosAt(text, k) = pos
    THEN CHOOSE k \in 0 .. Len(text) : PosAt(text, k) = pos
    ELSE Len(text)

\* The source text a location spans.
Span(loc) == SubSeq(text, Offset(loc.start) + 1, Offset(loc.end))

\* The offset in the text of the current character of the chunk being lexed.
CursorOffset == fed - Len(state.stream.chars) + state.stream.idx

\* ------------------------------------------------------------------ claims

\* C1. Chunk-boundary transparency: whenever the lexer has worked through the
\* chunks delivered so far (it awaits the next pull, has completed, or has
\* thrown UnexpectedChar), the tokens it has emitted, kinds, payloads and
\* locations, and the residual branch, buffer and positions, or the error, are
\* those of the lexer given the concatenation of these chunks as one chunk.
ChunkTransparency ==
  (pc \in { "next", "done" } \/ err.kind = "UnexpectedChar") =>
    LET one == SingleChunk(Delivered)
    IN  /\ tokens = one.tokens
        /\ err = one.throw
        /\ Residual(state) = Residual(one.state)

\* C1 witness: a text delivered in at least two non-empty chunks, the last
\* boundary inside a token that is still being buffered, after tokens have
\* been emitted.
ChunkTransparencyWitness ==
  /\ pc = "next"
  /\ fed = Len(text)
  /\ last.value # << >>
  /\ Len(last.value) < Len(state.buffer)
  /\ tokens # << >>

\* C2. Tokens are emitted in left-to-right order of the input, each once:
\* every token starts at or after the end of the token emitted before it, and
\* no two emissions are the same token (same kind at the same location).
OrderedOnce ==
  /\ \A i \in 2 .. Len(tokens) :
       PosLeq(tokens[i - 1].location.end, tokens[i].location.start)
  /\ \A i, j \in 1 .. Len(tokens) :
       i < j => << tokens[i].kind, tokens[i].location >>
                  # << tokens[j].kind, tokens[j].location >>

\* C2 witness: three tokens emitted from a text delivered in several chunks.
OrderedOnceWitness ==
  /\ Len(tokens) >= 3
  /\ Len(last.value) < fed
  /\ tokens[1].kind = "Identifier"
  /\ tokens[2].kind = "Whitespace"

\* The source text a token stands for: its span, or the paren itself.
TokenText(token) ==
  CASE token.kind = "LParen" -> << "(" >>
    [] token.kind = "RParen" -> << ")" >>
    [] OTHER                 -> Span(token.location)

RECURSIVE Reconstruct(_)
Reconstruct(toks) ==
  IF toks = << >>
    THEN << >>
    ELSE TokenText(Head(toks)) \o Reconstruct(Tail(toks))

\* C3. Round trip: once a text has been tokenized without error, the spans of
\* its Whitespace, Identifier and String tokens and the literal parens, in
\* emission order, make up the text again.  Stated for the runs that leave
\* nothing buffered at completion, where every character has gone into a
\* token.
RoundTrip ==
  (pc = "done" /\ state.branch = "Init" /\ state.buffer = << >>) =>
    Reconstruct(tokens) = text

\* Init's unrecognised characters: not whitespace, alphabetic, quote or paren.
Unrecognised(character) ==
  character \notin Spaces \cup Letters \cup { "\"", "(", ")" }

\* C4. When the Init branch is dispatched on an unrecognised character,
\* tokenization throws UnexpectedChar with that character and emits no token
\* in that step, and no token is emitted once UnexpectedChar is thrown.
UnexpectedCharFails ==
  /\ [][ (/\ pc = "loop"
          /\ pulling
          /\ state.branch = "Init"
          /\ current(state).kind = "just"
          /\ Unrecognised(current(state).value))
         => (/\ pc' = "error"
             /\ err' = UnexpectedChar(current(state).value)
             /\ tokens' = tokens) ]_vars
  /\ [][ err.kind = "UnexpectedChar" => (tokens' = tokens /\ pc' = "error") ]_vars

\* C4 witness: UnexpectedChar('#') thrown on the '#' that has just ended an
\* Identifier.
UnexpectedCharWitness ==
  /\ pc = "error"
  /\ err = UnexpectedChar("#")
  /\ tokens # << >>
  /\ tokens[Len(tokens)].kind = "Identifier"
  /\ text[Offset(tokens[Len(tokens)].location.end) + 1] = "#"

\* C5. A pull that resolves with done = false and no value makes tokenStream
\* throw EmptyInputError: no token is emitted for it, and from then on nothing
\* is pulled or emitted and the session stays in the error state.
NullValueFails ==
  /\ [][ (pc = "next" /\ last' = ResultNull)
         => (/\ pc' = "error"
             /\ err' = EmptyInputError
             /\ tokens' = tokens) ]_vars
  /\ [][ err = EmptyInputError => UNCHANGED << last, fed, tokens, state, pc >> ]_vars

\* C5 witness: EmptyInputError thrown on a null pull in the middle of a
\* session, after tokens have been emitted and with text still undelivered.
NullValueWitness ==
  /\ pc = "error"
  /\ err = EmptyInputError
  /\ last = ResultNull
  /\ tokens # << >>
  /\ fed < Len(text)

\* C6. A pull that resolves with done = false and the empty string as value
\* makes tokenStream throw EmptyInputError instead of going on to the next
\* chunk.
EmptyValueFails ==
  [][ (pc = "next" /\ last' = ResultChunk(<< >>))
      => (pc' = "error" /\ err' = EmptyInputError) ]_vars

Pos(line, column) == [line |-> line, column |-> column]

\* C7 as stated. The complete text "a b" yields Identifier("a")@0:0-0:1,
\* Whitespace(1)@0:1-0:2, Identifier("b")@0:2-0:3, and an Identifier that runs
\* up to the end of the text is emitted: at completion no Identifier is left
\* in the buffer without being the last token emitted.
TrailingIdentifierEmitted ==
  /\ (pc = "done" /\ text = TextAB) =>
       tokens = << IdentifierLexicon(<< "a" >>, LocationCreate(Pos(0, 0), Pos(0, 1))),
                   WhiteSpaceLexicon(1, LocationCreate(Pos(0, 1), Pos(0, 2))),
                   IdentifierLexicon(<< "b" >>, LocationCreate(Pos(0, 2), Pos(0, 3))) >>
  /\ (pc = "done" /\ state.branch = "Id") =>
       /\ tokens # << >>
       /\ tokens[Len(tokens)] = IdentifierLexicon(enqueued(state), location(state))

\* C7 as amended. The complete text "a b" yields exactly
\* Identifier("a")@0:0-0:1, Whitespace(1)@0:1-0:2, and "b" stays buffered in
\* the residual state (Identifier branch, 0:2-0:3); in general an Identifier
\* that runs up to the end of the text is not emitted: at completion it is the
\* buffer of the residual state, the tail of the text, and every emitted token
\* ends at or before its start.
TrailingIdentifierKept ==
  /\ (pc = "done" /\ text = TextAB) =>
       /\ tokens = << IdentifierLexicon(<< "a" >>, LocationCreate(Pos(0, 0), Pos(0, 1))),
                      WhiteSpaceLexicon(1, LocationCreate(Pos(0, 1), Pos(0, 2))) >>
       /\ Residual(state) = [ branch   |-> "Id",
                              buffer   |-> << "b" >>,
                              bufStart |-> Pos(0, 2),
                              bufEnd   |-> Pos(0, 3) ]
  /\ (pc = "done" /\ state.branch = "Id") =>
       /\ state.buffer # << >>
       /\ state.buffer = SubSeq(text, Len(text) - Len(state.buffer) + 1, Len(text))
       /\ isAlpha(state.buffer[1])
       /\ \A i \in 1 .. Len(tokens) :
            PosLeq(tokens[i].location.end, state.bufStart)

\* C7 witness: "a b" delivered in more than one chunk and completed.
TrailingIdentifierWitness ==
  /\ pc = "done"
  /\ text = TextAB
  /\ state.stream.chars # << >>
  /\ Len(state.stream.chars) < Len(text)
  /\ Len(tokens) = 2

\* C8. The text '"hi there"' yields the one token String("hi there") at
\* 0:0-0:10, and every String token's location starts at its opening quote
\* and ends just after its closing quote, its content being the text strictly
\* between the two.
StringSpansQuotes ==
  /\ (pc = "done" /\ text = TextString) =>
       tokens = << StringLexicon(<< "h", "i", " ", "t", "h", "e", "r", "e" >>,
                                 LocationCreate(Pos(0, 0), Pos(0, 10))) >>
  /\ \A i \in 1 .. Len(tokens) :
       tokens[i].kind = "String" =>
         LET from == Offset(tokens[i].location.start)
             to   == Offset(tokens[i].location.end)
         IN  /\ from + 2 <= to
             /\ text[from + 1] = "\""
             /\ text[to] = "\""
             /\ tokens[i].repr = SubSeq(text, from + 2, to - 1)

\* C9. The text "(abc)" yields exactly LParen@0:0-0:1, Identifier("abc")@0:1-0:4,
\* RParen@0:4-0:5; and Init on '(' or ')' consumes that one character, emits
\* the paren token whose location spans exactly that character, and stays in
\* Init with an empty buffer.
ParenTokens ==
  /\ [] ( (pc \in { "next", "done" } /\ text = TextParens /\ fed = Len(text)) =>
            tokens = << LParenLexicon(LocationCreate(Pos(0, 0), Pos(0, 1))),
                        IdentifierLexicon(<< "a", "b", "c" >>,
                                          LocationCreate(Pos(0, 1), Pos(0, 4))),
                        RParenLexicon(LocationCreate(Pos(0, 4), Pos(0, 5))) >> )
  /\ [][ (/\ pc = "loop"
          /\ pulling
          /\ state.branch = "Init"
          /\ current(state).kind = "just"
          /\ current(state).value \in { "(", ")" })
         => LET loc == LocationCreate(PosAt(text, CursorOffset),
                                      PosAt(text, CursorOffset + 1))
            IN  /\ tokens' = Append(tokens,
                                    IF current(state).value = "("
                                      THEN LParenLexicon(loc)
                                      ELSE RParenLexicon(loc))
                /\ state'.stream = [state.stream EXCEPT !.idx = @ + 1]
                /\ state'.branch = "Init"
                /\ state'.buffer = << >>
                /\ state'.bufStart = loc.end
                /\ state'.bufEnd = loc.end
                /\ pc' = "loop" ]_vars

\* C9 witness: "(abc)" delivered in more than one chunk, all three tokens out.
ParenTokensWitness ==
  /\ pc = "done"
  /\ text = TextParens
  /\ state.stream.chars # << >>
  /\ Len(state.stream.chars) < Len(text)
  /\ Len(tokens) = 3

\* C10. When the source signals completion tokenStream terminates and emits
\* nothing more: the step that takes the completion leaves the tokens and the
\* residual state as they were, whatever run is buffered, and nothing changes
\* after it.
NoFlushAtCompletion ==
  /\ [][ (pc = "next" /\ last' = ResultDone)
         => (pc' = "done" /\ tokens' = tokens /\ state' = state) ]_vars
  /\ [][ pc = "done" => UNCHANGED << tokens, state, pc, last >> ]_vars

\* C10 witness: completion with an unterminated String in the buffer, after
\* tokens have been emitted.
NoFlushWitness ==
  /\ pc = "done"
  /\ state.branch = "String"
  /\ state.buffer # << >>
  /\ tokens # << >>

\* C11. Pull ordering. A token is produced only in response to a consumer
\* pull, one token per pull; the chunk source is asked for its next result
\* only during a pull, once the cursor over the current chunk is exhausted and
\* every token the delivered text gives has been yielded; and while the
\* consumer is not pulling, neither the lexer state nor the chunk source nor
\* anything else of the session advances.
PullOrdering ==
  /\ [][ tokens' # tokens
         => (/\ pulling
             /\ ~ pulling'
             /\ Len(tokens') = Len(tokens) + 1
             /\ SubSeq(tokens', 1, Len(tokens)) = tokens) ]_vars
  /\ [][ (pc = "next" /\ pc' # "next")
         => (/\ pulling
             /\ current(state).kind = "nothing"
             /\ tokens = SingleChunk(Delivered).tokens) ]_vars
  /\ [][ ~ pulling => UNCHANGED << state, last, fed, empties, tokens, pc, err >> ]_vars

\* C11 witness: the consumer holds a token and has not pulled again, in the
\* middle of a chunk with text still to deliver.
PullOrderingWitness ==
  /\ pc = "loop"
  /\ ~ pulling
  /\ tokens # << >>
  /\ current(state).kind = "just"
  /\ fed < Len(text)

\* C12. After k shiftForward() calls a cursor over n characters is exhausted
\* (current() is nothing) exactly when k >= n; a cursor over no characters is
\* exhausted from the start.
ExhaustedAfterLen ==
  (StreamCurrent(cursor).kind = "nothing") <=> (shifts >= Len(text))

\* C12 witness: a cursor over three characters after exactly three shifts,
\* exhausted.
ExhaustedAfterLenWitness ==
  /\ Len(text) = 3
  /\ shifts = Len(text)
  /\ StreamCurrent(cursor).kind = "nothing"

\* C14. shiftForward() on an exhausted cursor returns a cursor equal to it,
\* and State.shiftForward() on a state whose cursor is exhausted returns the
\* state with cursor, buffer, bufStart, bufEnd and branch unchanged.
ShiftPastEnd ==
  /\ [][ (CursorShiftForward /\ StreamCurrent(cursor).kind = "nothing")
         => cursor' = cursor ]_vars
  /\ [][ (StateShiftForward /\ current(state).kind = "nothing")
         => state' = state ]_vars

\* C14 witness: a state with a non-empty buffer over an exhausted cursor and
\* an exhausted cursor over a non-empty text, both with a shiftForward() still
\* to come.
ShiftPastEndWitness ==
  /\ current(state).kind = "nothing"
  /\ state.buffer # << >>
  /\ text # << >>
  /\ StreamCurrent(cursor).kind = "nothing"
  /\ ENABLED StateShiftForward
  /\ ENABLED CursorShiftForward

\* The position reached from pos by one shiftWith per character of chars.
RECURSIVE ShiftAll(_, _)
ShiftAll(pos, chars) ==
  IF chars = << >>
    THEN pos
    ELSE ShiftAll(shiftWith(pos, Head(chars)), Tail(chars))

\* C15. In every State reached from initialState by branch transitions,
\* shiftForward, dropBuffer, setBranch and chunk swaps, bufEnd is the position
\* reached from bufStart by one shiftWith per buffered character, in order,
\* and the buffer is empty exactly when bufStart equals bufEnd.
BufferSpansPositions ==
  /\ state.bufEnd = ShiftAll(state.bufStart, state.buffer)
  /\ (state.buffer = << >>) <=> (state.bufStart = state.bufEnd)

\* C15 witness: a buffer holding a newline, begun after a dropBuffer moved
\* bufStart off the initial position and carried over a chunk swap.
BufferSpansPositionsWitness ==
  /\ state.bufStart # PositionInit
  /\ state.buffer # << >>
  /\ state.bufEnd.line > state.bufStart.line
  /\ state.stream.idx = 0

\* C16. Token locations are contiguous: the first token starts at the initial
\* position and every later token starts where the token before it ended.
ContiguousLocations ==
  /\ tokens # << >> => tokens[1].location.start = PositionInit
  /\ \A i \in 2 .. Len(tokens) :
       tokens[i].location.start = tokens[i - 1].location.end

IdChars == Letters \cup Digits \cup { "-" }

\* The running loop is about to dispatch character c through branch b.
Dispatching(b, c) ==
  /\ pc = "loop"
  /\ pulling
  /\ state.branch = b
  /\ current(state) = Just(c)

\* C17. The step that emits an Identifier or a Whitespace token does not
\* consume the character that ended the run: it leaves the cursor and bufEnd
\* unchanged, empties the buffer, switches to Init and stays in the loop, so
\* that the same character is dispatched through Init next; Init on
\* whitespace only switches to the Whitespace branch.  Every character is
\* consumed exactly once: a step moves the cursor by at most one character,
\* the chunk is handed back only with its cursor exhausted, and bufEnd is
\* always the position of the text after the characters the cursor has passed.
TerminatorKept ==
  /\ [][ \A c \in Alphabet \cup Letters :
           ( \/ (Dispatching("Id", c) /\ c \notin IdChars)
             \/ (Dispatching("WS", c) /\ c \notin Spaces) )
           => (/\ state'.stream = state.stream
               /\ state'.bufEnd = state.bufEnd
               /\ state'.bufStart = state.bufEnd
               /\ state'.buffer = << >>
               /\ state'.branch = "Init"
               /\ pc' = "loop"
               /\ Len(tokens') = Len(tokens) + 1) ]_vars
  /\ [][ \A c \in Spaces :
           Dispatching("Init", c)
           => (/\ state' = [state EXCEPT !.branch = "WS"]
               /\ tokens' = tokens
               /\ pc' = "loop") ]_vars
  /\ [][ (pc = "loop" /\ pc' = "loop")
         => (/\ state'.stream.chars = state.stream.chars
             /\ state'.stream.idx \in { state.stream.idx, state.stream.idx + 1 }) ]_vars
  /\ [] (pc \in { "next", "done" } => current(state).kind = "nothing")
  /\ [] (state.bufEnd = PosAt(text, CursorOffset))

\* C17 witness: an Identifier has just been emitted on a whitespace character,
\* which is still the current character, now in front of Init.
TerminatorKeptWitness ==
  /\ pc = "loop"
  /\ state.branch = "Init"
  /\ current(state) = Just(" ")
  /\ tokens # << >>
  /\ tokens[Len(tokens)].kind = "Identifier"
  /\ tokens[Len(tokens)].location.end = state.bufEnd

\* C18. withState replaces only the cursor: the state the driver loop starts
\* on has the new chunk's cursor and the branch, buffer, bufStart and bufEnd
\* of the residual state passed in, and the residual state handed back at the
\* end of the chunk is the loop's last state unchanged.
OnlyCursorReplaced ==
  /\ [][ (pc = "next" /\ pc' = "loop")
         => (/\ state'.stream = withIterable(last'.value)
             /\ Residual(state') = Residual(state)) ]_vars
  /\ [][ (pc = "loop" /\ pc' = "next") => state' = state ]_vars

\* C18 witness: the loop starts on a new chunk inside a String, with the
\* buffer and positions of the chunk before.
OnlyCursorReplacedWitness ==
  /\ pc = "loop"
  /\ state.stream.idx = 0
  /\ current(state).kind = "just"
  /\ state.branch = "String"
  /\ state.buffer # << >>

\* How many branch steps in a row from st leave the cursor where it is, counted
\* up to fuel.
RECURSIVE StallsUpTo(_, _)
StallsUpTo(st, fuel) ==
  LET cur == current(st)
  IN  IF fuel = 0 \/ cur.kind = "nothing"
        THEN 0
        ELSE LET p == withBranch(st, cur.value)
             IN  IF p.throw # NoError \/ p.ret.stream # st.stream
                   THEN 0
                   ELSE 1 + StallsUpTo(p.ret, fuel - 1)

\* Three per character left in the chunk, plus the steps still to come before
\* the next character is consumed.
LoopMeasure(st) ==
  3 * (Len(st.stream.chars) - st.stream.idx) + StallsUpTo(st, 3)

\* C19. The driver loop terminates on every chunk from every reachable state:
\* a branch step consumes one character, throws UnexpectedChar, or switches
\* branch without consuming (Identifier or Whitespace to Init, Init to
\* Whitespace); never more than two steps in a row consume nothing; and every
\* step of the loop either ends it (end of chunk or error) or lowers a measure
\* bounded by three times the chunk's length plus two.
LoopTerminates ==
  /\ [] (pc = "loop" => StallsUpTo(state, 3) <= 2)
  /\ [][ (pc = "loop" /\ pulling)
         => \/ pc' = "next" /\ current(state).kind = "nothing"
            \/ pc' = "error" /\ err'.kind = "UnexpectedChar"
            \/ /\ pc' = "loop"
               /\ LoopMeasure(state') < LoopMeasure(state)
               /\ \/ state'.stream.idx = state.stream.idx + 1
                  \/ /\ state'.stream.idx = state.stream.idx
                     /\ << state.branch, state'.branch >>
                          \in { << "Id", "Init" >>, << "WS", "Init" >>,
                                << "Init", "WS" >> }
            \/ UNCHANGED vars ]_vars

\* C19 witness: the loop in the Identifier branch in front of a whitespace
\* character, two steps away from consuming it.
LoopTerminatesWitness ==
  /\ pc = "loop"
  /\ pulling
  /\ state.branch = "Id"
  /\ StallsUpTo(state, 3) = 2

\* C20. Runs are maximal, also across chunk boundaries: no two consecutive
\* tokens are both Whitespace or both Identifier; a Whitespace token's count
\* is at least one and is the number of characters of its span, all of them
\* whitespace, with no whitespace right before or right after the span; an
\* Identifier's text is its span, is not empty, starts with a letter and holds
\* only letters, digits and '-', with no such character right before or right
\* after the span.
RunsMaximal ==
  /\ \A i \in 2 .. Len(tokens) :
       /\ ~ (tokens[i - 1].kind = "Whitespace" /\ tokens[i].kind = "Whitespace")
       /\ ~ (tokens[i - 1].kind = "Identifier" /\ tokens[i].kind = "Identifier")
  /\ \A i \in 1 .. Len(tokens) :
       LET from == Offset(tokens[i].location.start)
           to   == Offset(tokens[i].location.end)
           run  == Span(tokens[i].location)
       IN  /\ tokens[i].kind = "Whitespace" =>
                /\ tokens[i].nchars >= 1
                /\ tokens[i].nchars = Len(run)
                /\ \A k \in 1 .. Len(run) : run[k] \in Spaces
                /\ from = 0 \/ text[from] \notin Spaces
                /\ to < Len(text) /\ text[to + 1] \notin Spaces
           /\ tokens[i].kind = "Identifier" =>
                /\ tokens[i].repr # << >>
                /\ tokens[i].repr = run
                /\ run[1] \in Letters
                /\ \A k \in 1 .. Len(run) : run[k] \in IdChars
                /\ from = 0 \/ text[from] \notin IdChars
                /\ to < Len(text) /\ text[to + 1] \notin IdChars

\* C20 witness: a Whitespace token of two or more characters whose run
\* straddles the start of the chunk now being lexed.
RunsMaximalWitness ==
  /\ pc = "loop"
  /\ \E i \in 1 .. Len(tokens) :
       /\ tokens[i].kind = "Whitespace"
       /\ tokens[i].nchars >= 2
       /\ Offset(tokens[i].location.start) < fed - Len(state.stream.chars)
       /\ fed - Len(state.stream.chars) < Offset(tokens[i].location.end)

====
